---------------------------- MODULE Spec2Model ----------------------------
(***************************************************************************)
(* A model of csrc/quant_matmul.cpp: the validation, quantization-scheme   *)
(* resolution, workspace provisioning and kernel dispatch of quant_matmul, *)
(* and the shape contract of preprocess_weight.                            *)
(*                                                                         *)
(* A tensor is a record [shape, dtype, device, contiguous, ptr]: device is *)
(* what at::Tensor::get_device() returns (-1 on the host, the CUDA index   *)
(* otherwise) and ptr names the storage data_ptr() returns.                *)
(***************************************************************************)
EXTENDS Integers, Sequences, FiniteSets, TLC

VARIABLES
    pc,              \* position of the current quant_matmul call
    args,            \* its arguments: input, weight, weight_scales, bias_, bits
    m, n, k,         \* locals of lines 107-109
    is_finegrained,  \* local of line 110
    group_size,      \* local of line 111
    has_workspace,   \* local of line 149
    err,             \* the c10::Error thrown by a failed TORCH_CHECK, or NoError
    divByZero,       \* an integer / or % by zero has been evaluated in this call
    device_guard,    \* device set by the CUDAGuard of line 143, or NoDevice
    out,             \* the output tensor of line 147 ({} before it exists)
    workspace,       \* the workspace tensor of line 150 ({} while undefined)
    launch,          \* the kernel launches issued by this call
    ppPc,            \* position of the current preprocess_weight call
    ppArgs,          \* its arguments: quantized_weight, bits, arch
    ppErr,           \* its error, or NoError
    ppOut,           \* the tensor it returns ({} before)
    ppExt,           \* the calls made to preprocess_weights_for_mixed_gemm
    ppMem,           \* contents of the host buffers it touches
    ppLast           \* the last completed preprocess_weight call ({} if none)

qmVars == <<pc, args, m, n, k, is_finegrained, group_size, has_workspace, err,
            divByZero, device_guard, out, workspace, launch>>
ppVars == <<ppPc, ppArgs, ppErr, ppOut, ppExt, ppMem, ppLast>>
vars == <<qmVars, ppVars>>

---------------------------------------------------------------------------
(* Bounds of the model.                                                    *)

\* largest batch size m tried (the dispatch threshold is 4)
MaxM == 5
\* largest weight_scales.size(0) tried for a rank-2 scale tensor
MaxGroups == 2
\* at most this many of the four tensors deviate from a well-formed one
MaxDefects == 2

(* Program constants.                                                      *)

\* 1 << 22, lines 150 and 167
WorkspaceBytes == 4194304
\* m <= 4, line 69
GemvMaxM == 4
\* n % 8, line 114
NAlign == 8
\* arch >= 70 && arch < 90, line 83
ArchMin == 70
ArchSup == 90

NoDevice == -2
CpuDevice == -1
NoError == [kind |-> "", line |-> 0, msg |-> ""]

---------------------------------------------------------------------------
(* Tensors.                                                                *)

Tensor(shape, dtype, device, contiguous, ptr) ==
    [shape |-> shape, dtype |-> dtype, device |-> device,
     contiguous |-> contiguous, ptr |-> ptr]

dim(t) == Len(t.shape)
is_cuda(t) == t.device >= 0
is_cpu(t) == t.device = CpuDevice

\* at::Tensor::size(d) with 0-based d; the caller checks d < dim(t)
size(t, d) == t.shape[d + 1]

\* One way a tensor differs from the well-formed one.
Deviate(t, d) ==
    CASE d = "none"      -> t
      [] d = "dtype"     -> [t EXCEPT !.dtype = "Float"]
      [] d = "cpu"       -> [t EXCEPT !.device = CpuDevice]
      [] d = "dev1"      -> [t EXCEPT !.device = 1]
      [] d = "noncontig" -> [t EXCEPT !.contiguous = FALSE]
      [] d = "rank"      -> [t EXCEPT !.shape = Append(@, 1)]
      [] d = "shape"     -> [t EXCEPT !.shape = [@ EXCEPT ![Len(t.shape)] = @ + 1]]

MetaDeviations == {"none", "dtype", "cpu", "dev1", "noncontig"}

---------------------------------------------------------------------------
(* Integer division and remainder of C++ ints.  With a zero divisor the    *)
(* behaviour is undefined: the build either traps (SIGFPE, x86 idiv) or    *)
(* carries on with a value (AArch64 sdiv yields quotient 0, hence          *)
(* remainder a; other targets leave the register unspecified).             *)

UBQuotients == {0, 64}
UBRemainders(a) == {a, 0}

DivOutcomes(a, b) ==
    IF b # 0
    THEN {[trap |-> FALSE, ub |-> FALSE, val |-> a \div b]}
    ELSE {[trap |-> TRUE, ub |-> TRUE, val |-> 0]}
         \cup {[trap |-> FALSE, ub |-> TRUE, val |-> v] : v \in UBQuotients}

ModOutcomes(a, b) ==
    IF b # 0
    THEN {[trap |-> FALSE, ub |-> FALSE, val |-> a % b]}
    ELSE {[trap |-> TRUE, ub |-> TRUE, val |-> 0]}
         \cup {[trap |-> FALSE, ub |-> TRUE, val |-> v] : v \in UBRemainders(a)}

---------------------------------------------------------------------------
(* TORCH_CHECK and CHECK_SHAPE.                                            *)

\* Every failed TORCH_CHECK throws the same exception type.
TorchCheckKindByClass(line) ==
    IF line \in {14, 91, 125, 126, 128, 130, 138} THEN "ShapeError" ELSE "c10::Error"
TorchCheckKind(line) == "c10::Error"

\* TORCH_CHECK(cond) with no message reports the condition's text.
TorchCheck(line, cond, ok) ==
    [line |-> line, ok |-> ok, kind |-> TorchCheckKind(line),
     msg |-> "Expected " \o cond \o " to be true, but got false."]

\* CHECK_SHAPE(x, ...): x.sizes() == {...}, with its own message (line 14)
CHECK_SHAPE(line, x, xname, shape, shapename) ==
    [line |-> line, ok |-> (x.shape = shape), kind |-> TorchCheckKind(line),
     msg |-> xname \o " must have shape (" \o shapename \o ")"]

\* line 113
GroupSizeOkRange(gs) == gs >= 64 /\ gs <= 128
GroupSizeOk(gs) == gs = 64 \/ gs = 128

\* lines 127-131
ScaleShapeCheckRankOnly(scales, nn, kk, fg, gs) ==
    IF dim(scales) = 1
    THEN CHECK_SHAPE(128, scales, "weight_scales", <<nn>>, "n")
    ELSE IF dim(scales) = 2
    THEN CHECK_SHAPE(130, scales, "weight_scales", <<kk \div gs, nn>>,
                     "k / group_size, n")
    ELSE TorchCheck(128, "", TRUE)
ScaleShapeCheck(scales, nn, kk, fg, gs) ==
    IF ~fg
    THEN CHECK_SHAPE(128, scales, "weight_scales", <<nn>>, "n")
    ELSE CHECK_SHAPE(130, scales, "weight_scales", <<kk \div gs, nn>>,
                     "k / group_size, n")

bias_value(a) == CHOOSE b \in a.bias_ : TRUE
has_value(a) == a.bias_ # {}

\* The checks of quant_matmul after the locals are set, in source order:
\* QmCheck(i, ...) is the i-th of them.  A check that sits in a branch not
\* taken passes.
NumChecks == 19
QmCheck(i, a, mm, nn, kk, fg, gs, rem) ==
    CASE i = 1  -> TorchCheck(112, "k % group_size == 0", rem = 0)
      [] i = 2  -> TorchCheck(113, "group_size == 64 || group_size == 128",
                              fg => GroupSizeOk(gs))
      [] i = 3  -> TorchCheck(114, "n % 8 == 0", nn % NAlign = 0)
      [] i = 4  -> TorchCheck(116, "input.dtype() == torch::kFloat16",
                              a.input.dtype = "Half")
      [] i = 5  -> TorchCheck(117, "weight.dtype() == torch::kInt8",
                              a.weight.dtype = "Char")
      [] i = 6  -> TorchCheck(118, "weight_scales.dtype() == torch::kFloat16",
                              a.weight_scales.dtype = "Half")
      [] i = 7  -> TorchCheck(119, "input.is_cuda()", is_cuda(a.input))
      [] i = 8  -> TorchCheck(120, "weight.is_cuda()", is_cuda(a.weight))
      [] i = 9  -> TorchCheck(121, "weight_scales.is_cuda()",
                              is_cuda(a.weight_scales))
      [] i = 10 -> TorchCheck(122, "input.is_contiguous()", a.input.contiguous)
      [] i = 11 -> TorchCheck(123, "weight.is_contiguous()", a.weight.contiguous)
      [] i = 12 -> TorchCheck(124, "weight_scales.is_contiguous()",
                              a.weight_scales.contiguous)
      [] i = 13 -> CHECK_SHAPE(125, a.input, "input", <<mm, kk>>, "m, k")
      [] i = 14 -> CHECK_SHAPE(126, a.weight, "weight",
                               <<nn, kk \div (8 \div a.bits)>>, "n, k / (8 / bits)")
      [] i = 15 -> ScaleShapeCheck(a.weight_scales, nn, kk, fg, gs)
      [] i = 16 -> TorchCheck(135, "bias.dtype() == torch::kFloat16",
                              has_value(a) => bias_value(a).dtype = "Half")
      [] i = 17 -> TorchCheck(136, "bias.is_cuda()",
                              has_value(a) => is_cuda(bias_value(a)))
      [] i = 18 -> TorchCheck(137, "bias.is_contiguous()",
                              has_value(a) => bias_value(a).contiguous)
      [] i = 19 -> IF has_value(a)
                   THEN CHECK_SHAPE(138, bias_value(a), "bias", <<nn>>, "n")
                   ELSE TorchCheck(138, "", TRUE)

\* FirstFailure with the bias checks (lines 133-139) left out.
RECURSIVE FirstFailureNoBias(_, _, _, _, _, _, _, _)
FirstFailureNoBias(i, a, mm, nn, kk, fg, gs, rem) ==
    IF i > 15 THEN 0
    ELSE IF ~QmCheck(i, a, mm, nn, kk, fg, gs, rem).ok THEN i
    ELSE FirstFailureNoBias(i + 1, a, mm, nn, kk, fg, gs, rem)

\* The first check from the i-th on that fails (0: none does).  A failed
\* TORCH_CHECK throws, so no later check is evaluated.
RECURSIVE FirstFailure(_, _, _, _, _, _, _, _)
FirstFailure(i, a, mm, nn, kk, fg, gs, rem) ==
    IF i > NumChecks THEN 0
    ELSE IF ~QmCheck(i, a, mm, nn, kk, fg, gs, rem).ok THEN i
    ELSE FirstFailure(i + 1, a, mm, nn, kk, fg, gs, rem)

Thrown(c) == [kind |-> c.kind, line |-> c.line, msg |-> c.msg]

---------------------------------------------------------------------------
(* The kernels.                                                            *)

\* lines 27-63: the parameters handed to weight_only_batched_gemv_launcher
dispatch_to_weight_only_batched_gemv(WeightType, QuantOp, A, B, weight_scales, bias, C, mm, nn, kk, gs, stream) ==
    [kernel |-> "weight_only_batched_gemv_launcher",
     qweight |-> B, scales |-> weight_scales, zeros |-> "nullptr", in |-> A,
     act_scale |-> "nullptr", bias |-> bias, out |-> C,
     m |-> mm, n |-> nn, k |-> kk, group_size |-> gs,
     quant_type |-> IF WeightType = "cutlass::uint4b_t" THEN "Int4b" ELSE "Int8b",
     weight_only_type |-> IF QuantOp = "PER_COLUMN_SCALE_ONLY"
                          THEN "PerChannel" ELSE "GroupWise",
     WeightType |-> WeightType, QuantOp |-> QuantOp,
     workspace_ptr |-> "nullptr", workspace_bytes |-> 0,
     stream |-> stream]

\* lines 73-75: the arguments of CutlassFpAIntBGemmRunner::gemm_bias
gemm_bias(WeightType, QuantOp, A, B, weight_scales, bias, C, mm, nn, kk, gs, workspace_ptr, workspace_bytes, stream) ==
    [kernel |-> "CutlassFpAIntBGemmRunner::gemm_bias",
     qweight |-> B, scales |-> weight_scales, zeros |-> "nullptr", in |-> A,
     act_scale |-> "nullptr", bias |-> bias, out |-> C,
     m |-> mm, n |-> nn, k |-> kk, group_size |-> gs,
     quant_type |-> IF WeightType = "cutlass::uint4b_t" THEN "Int4b" ELSE "Int8b",
     weight_only_type |-> IF QuantOp = "PER_COLUMN_SCALE_ONLY"
                          THEN "PerChannel" ELSE "GroupWise",
     WeightType |-> WeightType, QuantOp |-> QuantOp,
     workspace_ptr |-> workspace_ptr, workspace_bytes |-> workspace_bytes,
     stream |-> stream]

\* the branch of line 69
UseBatchedGemv(mm) == mm <= GemvMaxM

\* lines 65-78
gemm_fp16_int_bias(WeightType, QuantOp, A, B, weight_scales, bias, C, mm, nn, kk, gs, workspace_ptr, workspace_bytes, stream) ==
    IF UseBatchedGemv(mm)
    THEN dispatch_to_weight_only_batched_gemv(WeightType, QuantOp, A, B,
             weight_scales, bias, C, mm, nn, kk, gs, stream)
    ELSE gemm_bias(WeightType, QuantOp, A, B, weight_scales, bias, C, mm, nn,
             kk, gs, workspace_ptr, workspace_bytes, stream)

---------------------------------------------------------------------------
(* quant_matmul, lines 103-173.                                            *)

\* The calls tried: every combination of the dimensions below, the four
\* tensors each well-formed or deviating in one attribute.
BitsTried == {3, 4, 8}
MDims == {1} \cup (4 .. MaxM)
KDims == {0, 128, 192}
NDims == {8, 12}
ScaleShapes(nn) ==
    {<<>>, <<nn>>, <<nn + 1>>, <<1, nn + 1>>, <<1, nn, 1>>}
    \cup {<<g, nn>> : g \in 0 .. MaxGroups}

Defects(di, dw, ds, db) ==
    Cardinality({x \in {<<"input", di>>, <<"weight", dw>>, <<"weight_scales", ds>>,
                        <<"bias", db>>} : x[2] \notin {"none", "absent"}})

\* the caller invokes quant_matmul(input, weight, weight_scales, bias_, bits)
Call ==
    /\ pc = "idle"
    /\ \E bits \in BitsTried, mm \in MDims, kk \in KDims, nn \in NDims,
          di \in MetaDeviations \cup {"rank"},
          dw \in MetaDeviations \cup {"shape"},
          ds \in MetaDeviations,
          db \in MetaDeviations \cup {"shape", "absent"} :
        \E sshape \in ScaleShapes(nn) :
          /\ Defects(di, dw, ds, db) <= MaxDefects
          /\ args' = [
                input |-> Deviate(Tensor(<<mm, kk>>, "Half", 0, TRUE, "input"), di),
                weight |-> Deviate(Tensor(<<nn, kk \div (8 \div bits)>>, "Char", 0,
                                          TRUE, "weight"), dw),
                weight_scales |-> Deviate(Tensor(sshape, "Half", 0, TRUE,
                                                 "weight_scales"), ds),
                bias_ |-> IF db = "absent" THEN {}
                          ELSE {Deviate(Tensor(<<nn>>, "Half", 0, TRUE, "bias"), db)},
                bits |-> bits]
    /\ pc' = "called"
    /\ m' = 0 /\ n' = 0 /\ k' = 0
    /\ is_finegrained' = FALSE /\ group_size' = 0 /\ has_workspace' = FALSE
    /\ err' = NoError /\ divByZero' = FALSE
    /\ device_guard' = NoDevice
    /\ out' = {} /\ workspace' = {} /\ launch' = {}
    /\ UNCHANGED ppVars

\* line 106
BitsOk(bits) == bits = 4 \/ bits = 8

\* line 111: the group size, or a trap
GroupSizeOutcomes(kk, fg, scales) ==
    IF ~fg THEN {[trap |-> FALSE, ub |-> FALSE, val |-> kk]}
    ELSE DivOutcomes(kk, size(scales, 0))

\* lines 106-139: every check of the call, up to the first that fails
Validate ==
    /\ pc = "called"
    /\ UNCHANGED <<args, has_workspace, device_guard, out, workspace, launch>>
    /\ UNCHANGED ppVars
    /\ IF ~BitsOk(args.bits)
       THEN /\ pc' = "rejected"
            /\ err' = Thrown(TorchCheck(106, "bits == 4 || bits == 8", FALSE))
            /\ UNCHANGED <<m, n, k, is_finegrained, group_size, divByZero>>
       ELSE LET mm == size(args.input, 0)
                kk == size(args.input, 1)
                nn == size(args.weight, 0)
                fg == dim(args.weight_scales) = 2
            IN /\ m' = mm /\ k' = kk /\ n' = nn /\ is_finegrained' = fg
               /\ \E q \in GroupSizeOutcomes(kk, fg, args.weight_scales) :
                    IF q.trap
                    THEN /\ pc' = "crashed"
                         /\ divByZero' = TRUE
                         /\ UNCHANGED <<group_size, err>>
                    ELSE /\ group_size' = q.val
                         /\ \E r \in ModOutcomes(kk, q.val) :
                              /\ divByZero' = (q.ub \/ r.ub)
                              /\ IF r.trap
                                 THEN pc' = "crashed" /\ UNCHANGED err
                                 ELSE LET f == FirstFailure(1, args, mm, nn, kk, fg,
                                                            q.val, r.val)
                                      IN IF f = 0
                                         THEN pc' = "validated" /\ UNCHANGED err
                                         ELSE /\ pc' = "rejected"
                                              /\ err' = Thrown(QmCheck(f, args, mm, nn,
                                                            kk, fg, q.val, r.val))

\* line 143: at::cuda::CUDAGuard device_guard{(char)input.get_device()}
TakeDeviceGuard ==
    /\ pc = "validated"
    /\ device_guard' = args.input.device
    /\ pc' = "guarded"
    /\ UNCHANGED <<args, m, n, k, is_finegrained, group_size, has_workspace, err,
                   divByZero, out, workspace, launch>>
    /\ UNCHANGED ppVars

\* line 147: at::empty({m, n}, input.options())
OutShape(mm, nn) == <<mm, nn>>

\* lines 146-147
AllocateOut ==
    /\ pc = "guarded"
    /\ out' = {Tensor(OutShape(m, n), args.input.dtype, args.input.device, TRUE,
                      "out")}
    /\ pc' = "out_allocated"
    /\ UNCHANGED <<args, m, n, k, is_finegrained, group_size, has_workspace, err,
                   divByZero, device_guard, workspace, launch>>
    /\ UNCHANGED ppVars

\* line 149
HasWorkspaceOffByOne(mm) == mm > 5
HasWorkspace(mm) == mm > 4

\* lines 148-150
AllocateWorkspace ==
    /\ pc = "out_allocated"
    /\ has_workspace' = HasWorkspace(m)
    /\ workspace' = IF HasWorkspace(m)
                    THEN {Tensor(<<WorkspaceBytes>>, "Char", args.input.device,
                                 TRUE, "workspace")}
                    ELSE {}
    /\ pc' = "workspace_ready"
    /\ UNCHANGED <<args, m, n, k, is_finegrained, group_size, err, divByZero,
                   device_guard, out, launch>>
    /\ UNCHANGED ppVars

\* line 153
WeightTypeOf(bits) == IF bits = 4 THEN "cutlass::uint4b_t" ELSE "uint8_t"
\* line 155
QuantOpOf(fg) == IF ~fg THEN "PER_COLUMN_SCALE_ONLY" ELSE "FINEGRAINED_SCALE_ONLY"

data_ptr(ts) == IF ts = {} THEN "nullptr" ELSE (CHOOSE t \in ts : TRUE).ptr

\* lines 152-170
Launch ==
    /\ pc = "workspace_ready"
    /\ launch' = {gemm_fp16_int_bias(
                      WeightTypeOf(args.bits), QuantOpOf(is_finegrained),
                      args.input.ptr, args.weight.ptr, args.weight_scales.ptr,
                      data_ptr(args.bias_), data_ptr(out), m, n, k, group_size,
                      IF has_workspace THEN data_ptr(workspace) ELSE "nullptr",
                      IF has_workspace THEN WorkspaceBytes ELSE 0,
                      device_guard)}
    /\ pc' = "launched"
    /\ UNCHANGED <<args, m, n, k, is_finegrained, group_size, has_workspace, err,
                   divByZero, device_guard, out, workspace>>
    /\ UNCHANGED ppVars

\* line 172: out is returned; the guard and the workspace go out of scope
Return ==
    /\ pc = "launched"
    /\ pc' = "returned"
    /\ device_guard' = NoDevice
    /\ workspace' = {}
    /\ UNCHANGED <<args, m, n, k, is_finegrained, group_size, has_workspace, err,
                   divByZero, out, launch>>
    /\ UNCHANGED ppVars

QmInit ==
    /\ pc = "idle"
    /\ args = [input |-> Tensor(<<0, 0>>, "Half", 0, TRUE, "input"),
               weight |-> Tensor(<<0, 0>>, "Char", 0, TRUE, "weight"),
               weight_scales |-> Tensor(<<0>>, "Half", 0, TRUE, "weight_scales"),
               bias_ |-> {}, bits |-> 8]
    /\ m = 0 /\ n = 0 /\ k = 0
    /\ is_finegrained = FALSE /\ group_size = 0 /\ has_workspace = FALSE
    /\ err = NoError /\ divByZero = FALSE
    /\ device_guard = NoDevice
    /\ out = {} /\ workspace = {} /\ launch = {}

---------------------------------------------------------------------------
(* preprocess_weight, lines 80-101.                                        *)

\* largest size(0) and size(1) of the packed weight tried
MaxRows == 3
MaxCols == 2

Raw(d) == [src |-> d, shape |-> <<>>, qtype |-> "raw"]
Uninit == Raw("uninitialized")

PpIdle ==
    /\ ppPc = "idle"
    /\ ppArgs = [quantized_weight |-> Tensor(<<0, 0>>, "Char", CpuDevice, TRUE, "w"),
                 bits |-> 8, arch |-> ArchMin]
    /\ ppErr = NoError
    /\ ppOut = {} /\ ppExt = {} /\ ppLast = {}
    /\ ppMem = [w |-> Uninit, out |-> Uninit]

ArchTried == {ArchMin - 1, ArchMin, 80, ArchSup - 1, ArchSup}
PpShapes ==
    {<<r, c>> : r \in 1 .. MaxRows, c \in 1 .. MaxCols}
    \cup {<<MaxRows>>, <<1, 1, 1>>}
PpDeviations == {"none", "dtype", "cuda", "noncontig"}
PpDeviate(t, d) ==
    IF d = "cuda" THEN [t EXCEPT !.device = 0] ELSE Deviate(t, d)

\* What a finished call leaves for the next one to be compared with.
PpRecord == [args |-> ppArgs, ext |-> ppExt, out |-> ppOut, mem |-> ppMem]

\* the caller invokes preprocess_weight(quantized_weight, bits, arch); a
\* second call may follow a first that returned
PreprocessCall ==
    /\ \/ ppPc = "idle" /\ UNCHANGED ppLast
       \/ ppPc = "done" /\ ppLast = {} /\ ppLast' = {PpRecord}
    /\ \E bits \in BitsTried, arch \in ArchTried, shape \in PpShapes,
          d \in PpDeviations, data \in {"W0", "W1"} :
          /\ ppArgs' = [quantized_weight |->
                            PpDeviate(Tensor(shape, "Char", CpuDevice, TRUE, "w"), d),
                        bits |-> bits, arch |-> arch]
          /\ ppMem' = [w |-> Raw(data), out |-> Uninit]
    /\ ppPc' = "called"
    /\ ppErr' = NoError /\ ppOut' = {} /\ ppExt' = {}
    /\ UNCHANGED qmVars

\* line 83
ArchOk(arch) == arch >= ArchMin /\ arch < ArchSup

\* at::Tensor::size(d) throws when the tensor has no dimension d
IndexError(line) ==
    [kind |-> "c10::IndexError", line |-> line, msg |-> "Dimension out of range"]

\* The checks of lines 88-91, in source order.
PpNumChecks == 4
PpCheck(i, a, rows, cols, elts_per_byte) ==
    CASE i = 1 -> TorchCheck(88, "quantized_weight.dtype() == torch::kInt8",
                             a.quantized_weight.dtype = "Char")
      [] i = 2 -> TorchCheck(89, "quantized_weight.is_cpu()",
                             is_cpu(a.quantized_weight))
      [] i = 3 -> TorchCheck(90, "quantized_weight.is_contiguous()",
                             a.quantized_weight.contiguous)
      [] i = 4 -> CHECK_SHAPE(91, a.quantized_weight, "quantized_weight",
                              <<rows, cols \div elts_per_byte>>,
                              "rows, cols / elts_per_byte")

RECURSIVE PpFirstFailure(_, _, _, _, _)
PpFirstFailure(i, a, rows, cols, elts_per_byte) ==
    IF i > PpNumChecks THEN 0
    ELSE IF ~PpCheck(i, a, rows, cols, elts_per_byte).ok THEN i
    ELSE PpFirstFailure(i + 1, a, rows, cols, elts_per_byte)

\* lines 84-86
Rows(a) == size(a.quantized_weight, 0)
EltsPerByte(a) == 8 \div a.bits
Cols(a) == size(a.quantized_weight, 1) * EltsPerByte(a)

\* lines 82-91
PreprocessValidate ==
    /\ ppPc = "called"
    /\ UNCHANGED <<ppArgs, ppOut, ppExt, ppMem, ppLast>>
    /\ UNCHANGED qmVars
    /\ IF ~BitsOk(ppArgs.bits)
       THEN /\ ppPc' = "rejected"
            /\ ppErr' = Thrown(TorchCheck(82, "bits == 4 || bits == 8", FALSE))
       ELSE IF ~ArchOk(ppArgs.arch)
       THEN /\ ppPc' = "rejected"
            /\ ppErr' = Thrown(TorchCheck(83, "arch >= 70 && arch < 90", FALSE))
       ELSE IF dim(ppArgs.quantized_weight) < 2
       THEN /\ ppPc' = "rejected"
            /\ ppErr' = IndexError(86)
       ELSE LET f == PpFirstFailure(1, ppArgs, Rows(ppArgs), Cols(ppArgs),
                                    EltsPerByte(ppArgs))
            IN IF f = 0
               THEN ppPc' = "validated" /\ UNCHANGED ppErr
               ELSE /\ ppPc' = "rejected"
                    /\ ppErr' = Thrown(PpCheck(f, ppArgs, Rows(ppArgs), Cols(ppArgs),
                                               EltsPerByte(ppArgs)))

\* line 94: at::empty({cols, rows / elts_per_byte}, opts)
PpOutShapeUnpacked(rows, cols, elts_per_byte) == <<cols, rows>>
PpOutShape(rows, cols, elts_per_byte) == <<cols, rows \div elts_per_byte>>

\* lines 93-94
PreprocessAllocate ==
    /\ ppPc = "validated"
    /\ ppOut' = {Tensor(PpOutShape(Rows(ppArgs), Cols(ppArgs), EltsPerByte(ppArgs)),
                        ppArgs.quantized_weight.dtype,
                        ppArgs.quantized_weight.device, TRUE, "out")}
    /\ ppPc' = "allocated"
    /\ UNCHANGED <<ppArgs, ppErr, ppExt, ppMem, ppLast>>
    /\ UNCHANGED qmVars

\* line 97
QuantTypeOf(bits) ==
    IF bits = 4 THEN "PACKED_INT4_WEIGHT_ONLY" ELSE "INT8_WEIGHT_ONLY"

\* line 99: the arguments handed to preprocess_weights_for_mixed_gemm
PreprocessorArgs(a, o) ==
    [preprocessed_quantized_weight |-> data_ptr(o),
     row_major_quantized_weight |-> a.quantized_weight.ptr,
     shape |-> <<Rows(a), Cols(a)>>,
     quant_type |-> QuantTypeOf(a.bits)]

\* The external preprocessor: it reads the row-major buffer, writes the
\* permuted weight to the output buffer, and is given nothing but x.
preprocess_weights_for_mixed_gemm(x, mem) ==
    [mem EXCEPT !.out = [src |-> mem.w.src, shape |-> x.shape,
                         qtype |-> x.quant_type]]

\* lines 96-99
PreprocessRun ==
    /\ ppPc = "allocated"
    /\ ppExt' = {PreprocessorArgs(ppArgs, ppOut)}
    /\ ppMem' = preprocess_weights_for_mixed_gemm(PreprocessorArgs(ppArgs, ppOut),
                                                  ppMem)
    /\ ppPc' = "ran"
    /\ UNCHANGED <<ppArgs, ppErr, ppOut, ppLast>>
    /\ UNCHANGED qmVars

\* line 100
PreprocessReturn ==
    /\ ppPc = "ran"
    /\ ppPc' = "done"
    /\ UNCHANGED <<ppArgs, ppErr, ppOut, ppExt, ppMem, ppLast>>
    /\ UNCHANGED qmVars

Init == QmInit /\ PpIdle

Next == Call \/ Validate \/ TakeDeviceGuard \/ AllocateOut \/ AllocateWorkspace
        \/ Launch \/ Return

Spec == Init /\ [][Next]_vars

PreprocessNext == PreprocessCall \/ PreprocessValidate \/ PreprocessAllocate
                  \/ PreprocessRun \/ PreprocessReturn

SpecPreprocess == Init /\ [][PreprocessNext]_vars

---------------------------------------------------------------------------
(* The claims.                                                             *)

Started == pc \notin {"idle", "called"}
Failed == pc \in {"rejected", "crashed"}
Accepted == pc \in {"validated", "guarded", "out_allocated", "workspace_ready",
                    "launched", "returned"}
Launched == pc \in {"launched", "returned"}
NoEffects == out = {} /\ workspace = {} /\ launch = {} /\ device_guard = NoDevice

ArgM == args.input.shape[1]
ArgK == args.input.shape[2]
ArgN == args.weight.shape[1]
ScaleRank == Len(args.weight_scales.shape)

OnGpuContiguous(t) == t.device >= 0 /\ t.contiguous

\* The valid calls, as the contract of quant_matmul words them.
ValidCall ==
    /\ args.bits \in {4, 8}
    /\ args.input.dtype = "Half" /\ Len(args.input.shape) = 2
    /\ args.weight.dtype = "Char"
    /\ args.weight.shape = <<ArgN, ArgK \div (8 \div args.bits)>>
    /\ args.weight_scales.dtype = "Half"
    /\ \/ ArgK # 0 /\ args.weight_scales.shape = <<ArgN>>
       \/ \E gs \in {64, 128} :
            ArgK % gs = 0 /\ args.weight_scales.shape = <<ArgK \div gs, ArgN>>
    /\ ArgN % 8 = 0
    /\ OnGpuContiguous(args.input) /\ OnGpuContiguous(args.weight)
    /\ OnGpuContiguous(args.weight_scales)
    /\ \A b \in args.bias_ :
         b.dtype = "Half" /\ b.shape = <<ArgN>> /\ OnGpuContiguous(b)

\* C1: a valid call passes every check, launches a kernel and returns an
\* output of shape (m, n).
ValidCallSucceeds ==
    (Started /\ ValidCall) =>
        /\ ~Failed
        /\ Launched => launch # {}
        /\ pc = "returned" => \A o \in out : o.shape = <<ArgM, ArgN>>
        /\ pc = "returned" => out # {}

\* The same for the calls whose reduction dimension k is not empty; this is
\* the part of C1 the code does meet.
ValidCallSucceedsNonEmptyK ==
    (Started /\ ValidCall /\ ArgK > 0) =>
        /\ ~Failed
        /\ Launched => launch # {}
        /\ pc = "returned" => \A o \in out : o.shape = <<ArgM, ArgN>>
        /\ pc = "returned" => out # {}

\* C2: the batched-vector kernel is launched iff m <= 4 and the tiled GEMM
\* iff m > 4; the 4 MiB workspace exists and is passed exactly when the
\* tiled GEMM is launched, and nothing is allocated or passed otherwise.
WorkspaceMatchesKernel ==
    /\ ~Launched => launch = {}
    /\ Launched =>
         /\ Cardinality(launch) = 1
         /\ \A l \in launch :
              /\ l.m = ArgM
              /\ l.kernel = "weight_only_batched_gemv_launcher" <=> ArgM <= 4
              /\ l.kernel = "CutlassFpAIntBGemmRunner::gemm_bias" <=> ArgM > 4
              /\ has_workspace <=> l.kernel = "CutlassFpAIntBGemmRunner::gemm_bias"
              /\ IF l.kernel = "CutlassFpAIntBGemmRunner::gemm_bias"
                 THEN /\ l.workspace_ptr = "workspace"
                      /\ l.workspace_bytes = 4194304
                      /\ pc = "launched" =>
                           /\ workspace # {}
                           /\ \A w \in workspace :
                                w.shape = <<4194304>> /\ w.dtype = "Char"
                 ELSE /\ l.workspace_ptr = "nullptr"
                      /\ l.workspace_bytes = 0
                      /\ workspace = {}

\* Witness of C2: a call with m = 5 has launched the tiled GEMM with its workspace.
TiledGemmLaunched ==
    /\ pc = "launched" /\ ArgM = 5 /\ workspace # {}
    /\ \E l \in launch : l.kernel = "CutlassFpAIntBGemmRunner::gemm_bias"

\* A call that violates the contract in a way no outcome of the arithmetic
\* can mask.
InvalidCall ==
    \/ args.bits \notin {4, 8}
    \/ args.input.dtype # "Half" \/ args.weight.dtype # "Char"
    \/ args.weight_scales.dtype # "Half"
    \/ ~OnGpuContiguous(args.input) \/ ~OnGpuContiguous(args.weight)
    \/ ~OnGpuContiguous(args.weight_scales)
    \/ ArgN % 8 # 0
    \/ Len(args.input.shape) # 2
    \/ args.bits \in {4, 8} /\ args.weight.shape # <<ArgN, ArgK \div (8 \div args.bits)>>
    \/ ScaleRank \notin {1, 2}
    \/ ScaleRank = 1 /\ args.weight_scales.shape # <<ArgN>>
    \/ ScaleRank = 2 /\ args.weight_scales.shape[2] # ArgN
    \/ /\ ScaleRank = 2 /\ args.weight_scales.shape[1] # 0
       /\ ArgK \div args.weight_scales.shape[1] \notin {64, 128}
    \/ \E b \in args.bias_ :
         b.dtype # "Half" \/ ~OnGpuContiguous(b) \/ b.shape # <<ArgN>>

\* C3: every check is evaluated before the device guard, the output, the
\* workspace and the launch: a call that has not passed validation, and a
\* call one of whose checks fails, has none of them, then or later.
ChecksPrecedeEffects ==
    /\ []((~Accepted \/ (pc # "idle" /\ InvalidCall)) => NoEffects)
    /\ [][Failed => (Failed' /\ NoEffects')]_vars

\* Witness of C3: a call with bits = 3 has been rejected, with nothing allocated.
BadBitsRejected ==
    pc = "rejected" /\ args.bits = 3 /\ err.line = 106 /\ NoEffects

\* C4: with a rank-2 scale tensor the group size is k / weight_scales.shape[0]
\* and the call is rejected unless it is 64 or 128; 96 is rejected by the
\* group-size check.
GroupSizeRestricted ==
    (Started /\ ScaleRank = 2) =>
        /\ (args.bits \in {4, 8} /\ args.weight_scales.shape[1] # 0)
              => group_size = ArgK \div args.weight_scales.shape[1]
        /\ Accepted => group_size \in {64, 128}
        /\ (args.weight_scales.shape[1] # 0
             /\ ArgK \div args.weight_scales.shape[1] \notin {64, 128}) => Failed
        /\ (args.bits \in {4, 8} /\ args.weight_scales.shape[1] # 0
             /\ ArgK \div args.weight_scales.shape[1] = 96)
              => (pc = "rejected" /\ err.line = 113)

\* Witness of C4: k = 192 with two groups has been rejected by the group-size check.
GroupSize96Rejected ==
    /\ pc = "rejected" /\ ArgK = 192 /\ args.weight_scales.shape = <<2, ArgN>>
    /\ group_size = 96 /\ err.line = 113

\* C5: a call is accepted only when input, weight, weight_scales and bias
\* are all on the same GPU device.  Stated of the calls whose arithmetic is
\* defined, so that a violation owes nothing to a division by zero.
AcceptedOnOneDevice ==
    (Accepted /\ ~divByZero) =>
        /\ args.weight.device = args.input.device
        /\ args.weight_scales.device = args.input.device
        /\ \A b \in args.bias_ : b.device = args.input.device

\* The source lines of the checks of each class.
ShapeLines == {125, 126, 128, 130, 138}
DtypeLines == {116, 117, 118, 135}
DeviceLines == {119, 120, 121, 136}
LayoutLines == {122, 123, 124, 137}

ShapeMessages ==
    {"input must have shape (m, k)", "weight must have shape (n, k / (8 / bits))",
     "weight_scales must have shape (n)",
     "weight_scales must have shape (k / group_size, n)",
     "bias must have shape (n)"}

SchemeFromRank ==
    Started =>
        /\ ScaleRank \notin {1, 2} => (Failed /\ launch = {})
        /\ (args.bits \in {4, 8} /\ ScaleRank = 1)
              => (~is_finegrained /\ (pc # "crashed" => group_size = ArgK))
        /\ (args.bits \in {4, 8} /\ ScaleRank = 2) => is_finegrained
        /\ \A l \in launch :
              /\ ScaleRank = 1 =>
                    /\ l.QuantOp = "PER_COLUMN_SCALE_ONLY"
                    /\ l.weight_only_type = "PerChannel"
                    /\ l.group_size = ArgK
              /\ ScaleRank = 2 =>
                    /\ l.QuantOp = "FINEGRAINED_SCALE_ONLY"
                    /\ l.weight_only_type = "GroupWise"

\* Witness of C9: a rank-3 scale tensor has been rejected by the shape check.
OtherRankRejected ==
    /\ pc = "rejected" /\ ScaleRank = 3 /\ err.line = 128 /\ launch = {}

\* C10: no division and no remainder by zero is ever evaluated, and every
\* malformed call ends in a reported validation error.
NoDivisionByZero == ~divByZero /\ pc # "crashed"

PpIn == ppArgs.quantized_weight

\* C6: the matrix preprocess_weight returns is a new tensor of shape
\* (cols, rows / (8 / bits)) for an input of shape (rows, cols / (8 / bits)),
\* and the input is left as it was.
PreprocessShape ==
    /\ [](ppPc \in {"allocated", "ran", "done"} =>
            /\ Len(PpIn.shape) = 2
            /\ \A o \in ppOut :
                 /\ o.shape = <<PpIn.shape[2] * (8 \div ppArgs.bits),
                                PpIn.shape[1] \div (8 \div ppArgs.bits)>>
                 /\ o.ptr # PpIn.ptr
            /\ ppOut # {})
    /\ [][ppPc # "idle" /\ ppPc' # "called"
            => ppMem'.w = ppMem.w /\ ppArgs' = ppArgs]_vars

\* Witness of C6: a 4-bit weight of shape (3, 2) has been preprocessed.
PreprocessReturned ==
    /\ ppPc = "done" /\ ppArgs.bits = 4 /\ PpIn.shape = <<3, 2>>
    /\ \E o \in ppOut : o.shape = <<4, 1>>
    /\ ppMem.out.qtype = "PACKED_INT4_WEIGHT_ONLY"

\* C7: the transform is a function of (weight, bits, arch), and arch takes
\* part in selecting the transform asked of the external preprocessor: two
\* calls that differ in arch alone ask for different transforms.
TransformKeyedByArch ==
    (ppPc = "done" /\ ppLast # {}) =>
        \A p \in ppLast :
            /\ (p.args = ppArgs /\ p.mem.w = ppMem.w)
                  => (p.out = ppOut /\ p.mem.out = ppMem.out)
            /\ (p.args.quantized_weight = PpIn /\ p.args.bits = ppArgs.bits
                 /\ p.args.arch # ppArgs.arch)
                  => p.ext # ppExt

=============================================================================
